---- MODULE Spec2Model ----
(***************************************************************************)
(* A model of the tnt-kafka consumer bridge:                               *)
(*   - the Lua facade (Consumer.create, _poll, _poll_msg, close,           *)
(*     subscribe, output, store_offset), and                               *)
(*   - the C binding (lua_create_consumer, lua_consumer_subscribe,         *)
(*     lua_consumer_poll, lua_consumer_poll_msg, lua_consumer_store_offset,*)
(*     consumer_close, lua_consumer_close, lua_consumer_gc,                *)
(*     lua_consumer_msg_gc).                                               *)
(* The native client library and the cooperative scheduler (fibers, the    *)
(* channel, the worker thread behind coio_call, the garbage collector) are *)
(* the environment: their steps are actions of their own.                  *)
(***************************************************************************)
EXTENDS Integers, Sequences, FiniteSets, TLC

(***************************************************************************)
(* Bounds of the model.                                                    *)
(***************************************************************************)
\* Number of events the native client hands to the record queue.
MaxEvents == 2
\* Capacity of the output channel. The facade passes 10000 to
\* fiber.channel; the model keeps the capacity as a parameter and checks
\* it at a size the channel fills up at.
Capacity == 1
\* Length the subscription list may grow to.
MaxTopics == 2
\* Number of entries of config.options.
MaxOptions == 2

\* Application fibers that receive from the output channel.
Receivers == {"r1", "r2"}
\* Topic names and topic/partition pairs of the records.
TopicNames == {"t1", "t2"}
TPs == {<<"t1", 0>>, <<"t2", 3>>}
\* Stored offset of a topic/partition nothing was stored for.
NoOffset == -1
\* Offset of the record of the k-th event of the record queue.
OffsetBase == 96
IDs == 1..MaxEvents

Range(s) == {s[i] : i \in 1..Len(s)}

(***************************************************************************)
(* Consumer creation: lua_create_consumer and Consumer.create.             *)
(*                                                                         *)
(* A config is [given, brokers, options, new_ok]:                          *)
(*   given    FALSE for Consumer.create(nil);                              *)
(*   brokers  "nil"   : config.brokers is absent or not convertible to a   *)
(*                      string (lua_tostring gives NULL),                  *)
(*            "empty" : a string rd_kafka_brokers_add finds no broker in,  *)
(*            "valid" : a string with at least one broker;                 *)
(*   options  the entries of config.options in lua_next order, each        *)
(*            [key_str, val_str, accepted]: lua_isstring of the key and of *)
(*            the value, and whether rd_kafka_conf_set accepts the pair;   *)
(*   new_ok   whether rd_kafka_new succeeds.                               *)
(* The outcome is [res, live, step]: the result kind, the native objects   *)
(* that are allocated and not released when the call returns, and for a    *)
(* failure whether it was decided before ("pre") or after ("post") the     *)
(* first native allocation.                                                *)
(***************************************************************************)
OptionEntries == [key_str : BOOLEAN, val_str : BOOLEAN, accepted : BOOLEAN]

OptionLists == UNION {[1..n -> OptionEntries] : n \in 0..MaxOptions}

Configs == [given : BOOLEAN, brokers : {"nil", "empty", "valid"},
            options : OptionLists, new_ok : BOOLEAN]

DefaultConfig == [given |-> TRUE, brokers |-> "valid", options |-> << >>,
                  new_ok |-> TRUE]

\* The objects rd_kafka_conf_new and rd_kafka_topic_conf_new allocate.
ConfObjects == {"rd_config", "topic_conf"}

\* The option loop of lua_create_consumer from entry i on: "ok" when every
\* entry was applied, else the error the loop returns with.
RECURSIVE ApplyOptions(_, _)
ApplyOptions(opts, i) ==
    IF i > Len(opts) THEN "ok"
    ELSE IF ~opts[i].val_str \/ ~opts[i].key_str THEN "ConfigError"
    ELSE IF ~opts[i].accepted THEN "NativeInitError"
    ELSE ApplyOptions(opts, i + 1)

\* What a failure path of lua_create_consumer releases before it returns.
ReleasedOnFailure(allocated) == {}

lua_create_consumer(cfg) ==
    IF cfg.brokers = "nil"
    THEN [res |-> "ConfigError", live |-> {}, step |-> "pre"]
    ELSE LET opt == ApplyOptions(cfg.options, 1) IN
         IF opt # "ok"
         THEN [res |-> opt,
               live |-> ConfObjects \ ReleasedOnFailure(ConfObjects),
               step |-> "post"]
         ELSE IF ~cfg.new_ok
         THEN [res |-> "NativeInitError",
               live |-> ConfObjects \ ReleasedOnFailure(ConfObjects),
               step |-> "post"]
         ELSE IF cfg.brokers = "empty"
         THEN [res |-> "NoBrokersError",
               live |-> (ConfObjects \cup {"rd_consumer"})
                        \ ReleasedOnFailure(ConfObjects \cup {"rd_consumer"}),
               step |-> "post"]
         ELSE [res |-> "consumer",
               live |-> ConfObjects \cup
                        {"rd_consumer", "rd_event_queue", "rd_msg_queue",
                         "consumer_t"},
               step |-> "post"]

Consumer_create(cfg) ==
    IF ~cfg.given
    THEN [res |-> "ConfigError", live |-> {}, step |-> "pre"]
    ELSE lua_create_consumer(cfg)

NotCreated == [res |-> "pending", live |-> {}, step |-> "pre"]

(***************************************************************************)
(* State.                                                                  *)
(***************************************************************************)
VARIABLES
    config,           \* the config Consumer.create is called with
    created,          \* the outcome of Consumer.create (NotCreated before)
    facade_consumer,  \* self._consumer: "ud" (the userdata) or "nil"
    output_ch,        \* buffer of self._output_ch: message ids, oldest first
    ch_closed,        \* whether self._output_ch is closed
    fiberA,           \* self._poll_fiber: [pc, cancelled]
    fiberB,           \* self._poll_msg_fiber: [pc, cancelled, msg, timer],
                      \* msg being what its local msg refers to (0: nil),
                      \* timer being the state of its fiber.sleep(0.01):
                      \* "off", "running", "due" (the interval has passed),
                      \* "late" (more than the interval has passed)
    consumer_p,       \* *consumer_p of the consumer userdata: "set" or "NULL"
    handle,           \* the consumer_t and what was done to its resources
    topics,           \* consumer->topics: [alloc, list]
    subscription,     \* the list handed to the last rd_kafka_subscribe
    requested,        \* topic names passed to subscribe calls so far
    rd_msg_queue,     \* events waiting on consumer->rd_msg_queue
    events,           \* [IDs -> [kind, tp, destroyed]]: the native events
    msg_p,            \* *msg_p of each message userdata: "none", "live", "null"
    held,             \* messages the application holds a reference to
    finalized,        \* message userdata the collector has finalized
    rpc,              \* per receiver: "idle", "waiting" (suspended in get),
                      \* "closed" (its last get returned the closed signal)
    received,         \* messages taken from the channel, in order
    stored,           \* the native client's stored offset per topic/partition
    lateNative,       \* a loop began a native call after it was cancelled
    close_steps,      \* what the first close() did, in the order it did it
    logged,           \* the kinds of error the loops passed to log.error
    last              \* the last public call: [op, res, arg], res being
                      \* "ok", "err" (an error value returned), "raise" (a
                      \* Lua error thrown), and arg the message's id

vars == <<config, created, facade_consumer, output_ch, ch_closed, fiberA,
          fiberB, consumer_p, handle, topics, subscription, requested,
          rd_msg_queue, events, msg_p, held, finalized, rpc, received,
          stored, lateNative, close_steps, logged, last>>

\* Variables that only a running consumer changes.
runVars == <<output_ch, ch_closed, handle, topics, subscription, requested,
             rd_msg_queue, events, msg_p, held, finalized, rpc, received,
             stored, lateNative, close_steps, logged, last>>

NoEvent == [kind |-> "none", tp |-> <<"t1", 0>>, destroyed |-> 0]

\* The record of event k: rd_kafka_event_message_next(event).
RecordOf(k) == [topic |-> events[k].tp[1], partition |-> events[k].tp[2],
                offset |-> OffsetBase + k]

\* Events the native client has put on the record queue so far.
Delivered == {k \in IDs : events[k].kind # "none"}

\* Consumer.create: the facade fields and the two fibers. fiber.create runs
\* the new fiber until it first suspends: Loop A inside coio_call, Loop B in
\* its throttle sleep (the record queue is empty at creation).
FacadeConsumerOf(o) == IF o.res = "consumer" THEN "ud" ELSE "nil"
FiberAOf(o) == [pc |-> IF o.res = "consumer" THEN "drive" ELSE "none",
                cancelled |-> FALSE]
FiberBOf(o) == [pc |-> IF o.res = "consumer" THEN "sleep" ELSE "none",
                cancelled |-> FALSE, msg |-> 0,
                timer |-> IF o.res = "consumer" THEN "running" ELSE "off"]
ConsumerPOf(o) == IF o.res = "consumer" THEN "set" ELSE "NULL"

\* Everything creation does not decide.
Fresh ==
    /\ output_ch = << >>
    /\ ch_closed = FALSE
    /\ handle = [mem |-> "live", msgq |-> 0, closes |-> 0, evq |-> 0,
                 topics |-> 0, frees |-> 0, uaf |-> FALSE]
    /\ topics = [alloc |-> FALSE, list |-> << >>]
    /\ subscription = << >>
    /\ requested = {}
    /\ rd_msg_queue = << >>
    /\ events = [k \in IDs |-> NoEvent]
    /\ msg_p = [k \in IDs |-> "none"]
    /\ held = {}
    /\ finalized = {}
    /\ rpc = [r \in Receivers |-> "idle"]
    /\ received = << >>
    /\ stored = [tp \in TPs |-> NoOffset]
    /\ lateNative = FALSE
    /\ close_steps = << >>
    /\ logged = {}
    /\ last = [op |-> "none", res |-> "none", arg |-> 0]

\* The state Consumer.create(DefaultConfig) returns in.
Init ==
    /\ config = DefaultConfig
    /\ created = Consumer_create(config)
    /\ facade_consumer = FacadeConsumerOf(created)
    /\ fiberA = FiberAOf(created)
    /\ fiberB = FiberBOf(created)
    /\ consumer_p = ConsumerPOf(created)
    /\ Fresh

\* Before Consumer.create, for any config.
InitCreate ==
    /\ config \in Configs
    /\ created = NotCreated
    /\ facade_consumer = "nil"
    /\ fiberA = FiberAOf(NotCreated)
    /\ fiberB = FiberBOf(NotCreated)
    /\ consumer_p = "NULL"
    /\ Fresh

Create ==
    /\ created = NotCreated
    /\ created' = Consumer_create(config)
    /\ facade_consumer' = FacadeConsumerOf(created')
    /\ fiberA' = FiberAOf(created')
    /\ fiberB' = FiberBOf(created')
    /\ consumer_p' = ConsumerPOf(created')
    /\ UNCHANGED config
    /\ UNCHANGED runVars

(***************************************************************************)
(* Teardown: consumer_close, lua_consumer_close, lua_consumer_gc.          *)
(***************************************************************************)
\* What consumer_close reads from the consumer_t: for each pointer field,
\* whether it reads as non-NULL. A live handle has its client and both
\* queues set since creation and its topics once subscribe allocated them.
\* A freed handle is read through a dangling pointer: any value may come
\* back.
FieldReads(h) ==
    IF h.mem = "live"
    THEN {[msgq |-> TRUE, consumer |-> TRUE, evq |-> TRUE,
           topics |-> topics.alloc]}
    ELSE [msgq : BOOLEAN, consumer : BOOLEAN, evq : BOOLEAN,
          topics : BOOLEAN]

Bump(b) == IF b THEN 1 ELSE 0

\* consumer_close on handle h, reading rd, with rd_kafka_consumer_close
\* failing iff fails: the handle afterwards and the error returned.
consumer_close(h, rd, fails) ==
    LET h1 == [h EXCEPT !.uaf = @ \/ (h.mem = "freed"),
                        !.msgq = @ + Bump(rd.msgq),
                        !.closes = @ + Bump(rd.consumer)]
    IN  IF rd.consumer /\ fails
        THEN [h |-> h1, err |-> TRUE]
        ELSE [h |-> [h1 EXCEPT !.evq = @ + Bump(rd.evq),
                               !.topics = @ + Bump(rd.topics),
                               !.frees = @ + 1,
                               !.mem = "freed"],
              err |-> FALSE]

\* A consumer_close that leaves the group before it destroys the record
\* queue.
consumer_close_steps_swapped(rd, fails) ==
    (IF rd.consumer THEN <<"rd_kafka_consumer_close">> ELSE << >>)
    \o (IF rd.msgq THEN <<"destroy_rd_msg_queue">> ELSE << >>)
    \o (IF rd.consumer /\ fails
        THEN << >>
        ELSE (IF rd.evq THEN <<"destroy_rd_event_queue">> ELSE << >>)
             \o (IF rd.topics THEN <<"destroy_topics">> ELSE << >>)
             \o <<"free_consumer">>)

\* The calls consumer_close makes, in the order of its statements.
consumer_close_steps(rd, fails) ==
    (IF rd.msgq THEN <<"destroy_rd_msg_queue">> ELSE << >>)
    \o (IF rd.consumer THEN <<"rd_kafka_consumer_close">> ELSE << >>)
    \o (IF rd.consumer /\ fails
        THEN << >>
        ELSE (IF rd.evq THEN <<"destroy_rd_event_queue">> ELSE << >>)
             \o (IF rd.topics THEN <<"destroy_topics">> ELSE << >>)
             \o <<"free_consumer">>)

\* The value lua_consumer_close leaves in *consumer_p.
ConsumerPAfterClose(p) == p

\* lua_consumer_close: [h, p, ret, steps] with ret what it returns to Lua:
\* "false" (nothing to close), "true" or "true,err", and steps the calls it
\* made.
lua_consumer_close(h, p, rd, fails) ==
    IF p = "NULL"
    THEN [h |-> h, p |-> p, ret |-> "false", steps |-> << >>]
    ELSE LET c == consumer_close(h, rd, fails) IN
         [h |-> c.h, p |-> ConsumerPAfterClose(p),
          ret |-> IF c.err THEN "true,err" ELSE "true",
          steps |-> consumer_close_steps(rd, fails)]

\* lua_consumer_gc: [h, p].
lua_consumer_gc(h, p, rd, fails) ==
    [h |-> IF p = "NULL" THEN h ELSE consumer_close(h, rd, fails).h,
     p |-> "NULL"]

(***************************************************************************)
(* Consumer:close.                                                         *)
(***************************************************************************)
\* A close() that keeps its reference to the userdata.
FacadeConsumerKept == facade_consumer

\* self._consumer after close() (line 80).
FacadeConsumerAfterClose == "nil"

\* A close() that leaves the output channel as it is.
ChannelLeftOpen == ch_closed

\* Whether close() closes the output channel (line 77).
ChannelClosedAfterClose == TRUE

\* fiber.channel close: every build wakes the waiters with a closed status;
\* what happens to buffered items depends on the scheduler's version (kept
\* for later receives by a graceful close, or destroyed by close itself).
ChannelBufferAfterClose == {output_ch, << >>}

\* What Consumer:close does before it calls self._consumer:close(), in the
\* order of its statements (lines 75 to 77).
Consumer_close_steps ==
    <<"cancel_poll_msg_fiber", "cancel_poll_fiber", "close_output_ch">>

Close ==
    /\ created.res = "consumer"
    /\ IF facade_consumer = "nil"
       THEN \* self._consumer is nil: indexing it raises (or, earlier,
            \* cancelling a fiber that has died does).
            /\ last' = [op |-> "close", res |-> "raise", arg |-> 0]
            /\ UNCHANGED <<facade_consumer, output_ch, ch_closed, fiberA,
                           fiberB, consumer_p, handle, close_steps>>
       ELSE /\ fiberB' = [fiberB EXCEPT !.cancelled = TRUE]
            /\ fiberA' = [fiberA EXCEPT !.cancelled = TRUE]
            /\ ch_closed' = ChannelClosedAfterClose
            /\ output_ch' \in (IF ChannelClosedAfterClose
                               THEN ChannelBufferAfterClose
                               ELSE {output_ch})
            /\ \E rd \in FieldReads(handle), fails \in BOOLEAN :
                 LET c == lua_consumer_close(handle, consumer_p, rd, fails)
                 IN  /\ handle' = c.h
                     /\ consumer_p' = c.p
                     /\ close_steps' = Consumer_close_steps \o c.steps
                     /\ last' = [op |-> "close",
                                 res |-> IF c.ret = "true,err" THEN "err"
                                         ELSE "ok",
                                 arg |-> 0]
            /\ facade_consumer' = FacadeConsumerAfterClose
    /\ UNCHANGED logged
    /\ UNCHANGED <<config, created, topics, subscription, requested,
                   rd_msg_queue, events, msg_p, held, finalized, rpc,
                   received, stored, lateNative>>

\* The collector finalizes the consumer userdata once nothing refers to it:
\* the facade dropped it and Loop A is not inside consumer:poll().
ConsumerGc ==
    /\ created.res = "consumer"
    /\ facade_consumer = "nil"
    /\ fiberA.pc \in {"dead"}
    /\ consumer_p = "set"
    /\ \E rd \in FieldReads(handle), fails \in BOOLEAN :
         LET g == lua_consumer_gc(handle, consumer_p, rd, fails)
         IN  /\ handle' = g.h
             /\ consumer_p' = g.p
    /\ UNCHANGED <<close_steps, logged>>
    /\ UNCHANGED <<config, created, facade_consumer, output_ch, ch_closed,
                   fiberA, fiberB, topics, subscription, requested,
                   rd_msg_queue, events, msg_p, held, finalized, rpc,
                   received, stored, lateNative, last>>

(***************************************************************************)
(* Loop A: Consumer:_poll and lua_consumer_poll.                           *)
(***************************************************************************)
\* The worker thread finishes rd_kafka_poll(rd_consumer, 1000); coio_call
\* wakes the fiber with the result (err: coio_call returned -1).
WorkerDone ==
    /\ fiberA.pc = "drive"
    /\ \E err \in BOOLEAN :
         fiberA' = [fiberA EXCEPT !.pc = IF err THEN "ready_err"
                                         ELSE "ready_ok"]
    /\ UNCHANGED <<close_steps, logged>>
    /\ UNCHANGED <<config, created, facade_consumer, output_ch, ch_closed,
                   fiberB, consumer_p, handle, topics, subscription,
                   requested, rd_msg_queue, events, msg_p, held, finalized,
                   rpc, received, stored, lateNative, last>>

\* A loop that ends when the drive reported an error.
StopOnDriveError(pc) == IF pc = "ready_err" THEN "dead" ELSE "drive"

\* Where Loop A goes after poll() returned with pc "ready_ok" or
\* "ready_err": the next iteration of while true, whatever poll returned.
AfterDrive(pc) == "drive"

\* The fiber runs again: poll() returns, the error (if any) is logged, and
\* the loop calls self._consumer:poll() again, which raises when
\* self._consumer is nil and else hands the next drive to the worker.
LoopA_Resume ==
    /\ fiberA.pc \in {"ready_ok", "ready_err"}
    /\ logged' = IF fiberA.pc = "ready_err"
                 THEN logged \cup {"PollDriveError"}
                 ELSE logged
    /\ IF facade_consumer = "nil"
       THEN /\ fiberA' = [fiberA EXCEPT !.pc = "dead"]
            /\ UNCHANGED lateNative
       ELSE /\ fiberA' = [fiberA EXCEPT !.pc = AfterDrive(fiberA.pc)]
            /\ lateNative' = (lateNative \/ fiberA.cancelled)
    /\ UNCHANGED close_steps
    /\ UNCHANGED <<config, created, facade_consumer, output_ch, ch_closed,
                   fiberB, consumer_p, handle, topics, subscription,
                   requested, rd_msg_queue, events, msg_p, held, finalized,
                   rpc, received, stored, last>>

(***************************************************************************)
(* Loop B: Consumer:_poll_msg and lua_consumer_poll_msg, and the channel.  *)
(***************************************************************************)
\* A channel created one slot too large.
CapacityPlusOne == Capacity + 1

\* The capacity Consumer.create gives the output channel.
fiber_channel_capacity == Capacity

\* A loop that does not put the message it fetched.
ChannelLose(ch, k) == ch

\* The buffer after self._output_ch:put(msg) found room for message k.
ChannelAppend(ch, k) == Append(ch, k)

Waiting == {r \in Receivers : rpc[r] = "waiting"}

\* A loop that sleeps after every send.
ThrottleAfterSend == "sleep"

\* What Loop B does after put returned: fiber.yield() (line 64).
AfterSend == "yield"

\* A loop that the error of poll_msg ends.
EndOnPollError == "dead"

\* What Loop B does after it logged the error of poll_msg:
\* fiber.sleep(0.01) (line 61).
AfterPollError == "sleep"

\* What Loop B does when poll_msg returned neither error nor message:
\* fiber.sleep(0.01) (line 67).
AfterNothing == "sleep"

\* fiber.sleep starts the timer; a fiber anywhere else has none.
TimerFor(pc) == IF pc = "sleep" THEN "running" ELSE "off"

\* Loop B at suspension point pc, its local msg referring to message m (0:
\* nil). The local keeps the message put returned from until the next
\* poll_msg assigns it or the fiber ends.
LoopB_At(pc, m) == [fiberB EXCEPT !.pc = pc, !.msg = m, !.timer = TimerFor(pc)]

\* self._output_ch:put(msg) followed by fiber.yield(), up to the point where
\* Loop B suspends. A closed channel refuses the message; a receiver already
\* waiting is handed the message and woken; a buffer with room takes it; a
\* full buffer suspends the fiber inside put with the message in hand.
ChannelPut(k) ==
    IF ch_closed
    THEN /\ fiberB' = LoopB_At(AfterSend, k)
         /\ UNCHANGED <<output_ch, rpc, received, held>>
    ELSE IF Waiting # {}
    THEN /\ \E r \in Waiting : rpc' = [rpc EXCEPT ![r] = "idle"]
         /\ received' = Append(received, k)
         /\ held' = held \cup {k}
         /\ fiberB' = LoopB_At(AfterSend, k)
         /\ UNCHANGED output_ch
    ELSE IF Len(output_ch) < fiber_channel_capacity
    THEN /\ output_ch' = ChannelAppend(output_ch, k)
         /\ fiberB' = LoopB_At(AfterSend, k)
         /\ UNCHANGED <<rpc, received, held>>
    ELSE /\ fiberB' = LoopB_At("put", k)
         /\ UNCHANGED <<output_ch, rpc, received, held>>

\* What the record queue holds after lua_consumer_poll_msg dequeued from it.
QueueAfterPoll(q) == Tail(q)

\* A poll_msg that does not destroy the event it has no use for.
UnexpectedEventKept(ev, k) == ev

\* The events after lua_consumer_poll_msg found event k to be of another
\* kind than fetch: rd_kafka_event_destroy(event).
UnexpectedEventDestroyed(ev, k) == [ev EXCEPT ![k].destroyed = @ + 1]

\* One iteration of the loop of Consumer:_poll_msg, from the call of
\* self._consumer:poll_msg() to the next suspension.
PollMsgIteration ==
    IF facade_consumer = "nil"
    THEN \* indexing self._consumer raises: the fiber ends
         /\ fiberB' = LoopB_At("dead", 0)
         /\ UNCHANGED <<output_ch, rpc, received, held, rd_msg_queue,
                        events, msg_p, lateNative, logged>>
    ELSE /\ lateNative' = (lateNative \/ fiberB.cancelled)
         /\ IF rd_msg_queue = << >>
            THEN \* no entry: throttle
                 /\ fiberB' = LoopB_At(AfterNothing, 0)
                 /\ UNCHANGED <<output_ch, rpc, received, held,
                                rd_msg_queue, events, msg_p, logged>>
            ELSE LET k == Head(rd_msg_queue) IN
                 /\ rd_msg_queue' = QueueAfterPoll(rd_msg_queue)
                 /\ IF events[k].kind = "FETCH"
                    THEN /\ msg_p' = [msg_p EXCEPT ![k] = "live"]
                         /\ ChannelPut(k)
                         /\ UNCHANGED <<events, logged>>
                    ELSE \* unexpected kind: destroyed, logged, throttle
                         /\ events' = UnexpectedEventDestroyed(events, k)
                         /\ logged' = logged \cup {"UnexpectedEventError"}
                         /\ fiberB' = LoopB_At(AfterPollError, 0)
                         /\ UNCHANGED <<output_ch, rpc, received, held,
                                        msg_p>>

\* The clock advances while Loop B is in fiber.sleep(0.01): the interval
\* passes, and more time passes if the scheduler has not run the fiber by
\* then. Cancelling the fiber takes it off the timer.
TimePasses ==
    /\ fiberB.pc = "sleep"
    /\ ~fiberB.cancelled
    /\ fiberB.timer \in {"running", "due"}
    /\ fiberB' = [fiberB EXCEPT !.timer = IF @ = "running" THEN "due"
                                          ELSE "late"]
    /\ UNCHANGED <<close_steps, logged>>
    /\ UNCHANGED <<config, created, facade_consumer, output_ch, ch_closed,
                   fiberA, consumer_p, handle, topics, subscription,
                   requested, rd_msg_queue, events, msg_p, held, finalized,
                   rpc, received, stored, lateNative, last>>

\* fiber.sleep(0.01) returns, not before the interval passed unless cancel
\* woke the fiber: it raises in a cancelled fiber, and else the loop
\* iterates.
LoopB_SleepWake ==
    /\ fiberB.pc = "sleep"
    /\ fiberB.cancelled \/ fiberB.timer \in {"due", "late"}
    /\ IF fiberB.cancelled
       THEN /\ fiberB' = LoopB_At("dead", 0)
            /\ UNCHANGED <<output_ch, rpc, received, held, rd_msg_queue,
                           events, msg_p, lateNative, logged>>
       ELSE PollMsgIteration
    /\ UNCHANGED close_steps
    /\ UNCHANGED <<config, created, facade_consumer, ch_closed, fiberA,
                   consumer_p, handle, topics, subscription, requested,
                   finalized, stored, last>>

\* fiber.yield() returns: the loop iterates.
LoopB_YieldWake ==
    /\ fiberB.pc = "yield"
    /\ PollMsgIteration
    /\ UNCHANGED close_steps
    /\ UNCHANGED <<config, created, facade_consumer, ch_closed, fiberA,
                   consumer_p, handle, topics, subscription, requested,
                   finalized, stored, last>>

\* A put that a receiver completed returns; the loop calls fiber.yield().
LoopB_PutDone ==
    /\ fiberB.pc = "putdone"
    /\ fiberB' = LoopB_At(AfterSend, fiberB.msg)
    /\ UNCHANGED <<close_steps, logged>>
    /\ UNCHANGED <<config, created, facade_consumer, output_ch, ch_closed,
                   fiberA, consumer_p, handle, topics, subscription,
                   requested, rd_msg_queue, events, msg_p, held, finalized,
                   rpc, received, stored, lateNative, last>>

\* A put suspended on a full channel is woken by cancel or by the channel's
\* close: the message is not added. Either put returns false and the loop
\* goes on to fiber.yield() (line 64), the local msg still referring to the
\* message, or, in a cancelled fiber, put raises and the fiber ends; which
\* of the two a cancelled fiber gets depends on the scheduler's build.
LoopB_PutAbort ==
    /\ fiberB.pc = "put"
    /\ fiberB.cancelled \/ ch_closed
    /\ \/ fiberB' = LoopB_At(AfterSend, fiberB.msg)
       \/ /\ fiberB.cancelled
          /\ fiberB' = LoopB_At("dead", 0)
    /\ UNCHANGED <<close_steps, logged>>
    /\ UNCHANGED <<config, created, facade_consumer, output_ch, ch_closed,
                   fiberA, consumer_p, handle, topics, subscription,
                   requested, rd_msg_queue, events, msg_p, held, finalized,
                   rpc, received, stored, lateNative, last>>

(***************************************************************************)
(* The native client delivers events to the record queue.                  *)
(***************************************************************************)
Deliver ==
    /\ created.res = "consumer"
    /\ handle.msgq = 0
    /\ Cardinality(Delivered) < MaxEvents
    /\ LET k == Cardinality(Delivered) + 1 IN
       /\ \/ \E tp \in TPs :
               events' = [events EXCEPT ![k] = [kind |-> "FETCH", tp |-> tp,
                                                destroyed |-> 0]]
          \/ events' = [events EXCEPT ![k].kind = "OTHER"]
       /\ rd_msg_queue' = Append(rd_msg_queue, k)
    /\ UNCHANGED <<close_steps, logged>>
    /\ UNCHANGED <<config, created, facade_consumer, output_ch, ch_closed,
                   fiberA, fiberB, consumer_p, handle, topics, subscription,
                   requested, msg_p, held, finalized, rpc, received, stored,
                   lateNative, last>>

(***************************************************************************)
(* Application fibers receiving from consumer:output().                    *)
(***************************************************************************)
\* channel:get() by receiver r. Taking an item from a full channel on which
\* Loop B is suspended moves Loop B's message into the buffer and wakes it.
Receive(r) ==
    /\ created.res = "consumer"
    /\ rpc[r] # "waiting"
    /\ IF output_ch # << >>
       THEN /\ received' = Append(received, Head(output_ch))
            /\ held' = held \cup {Head(output_ch)}
            /\ rpc' = [rpc EXCEPT ![r] = "idle"]
            /\ IF fiberB.pc = "put" /\ ~ch_closed
               THEN /\ output_ch' = ChannelAppend(Tail(output_ch), fiberB.msg)
                    /\ fiberB' = [fiberB EXCEPT !.pc = "putdone"]
               ELSE /\ output_ch' = Tail(output_ch)
                    /\ UNCHANGED fiberB
       ELSE /\ rpc' = [rpc EXCEPT ![r] = IF ch_closed THEN "closed"
                                         ELSE "waiting"]
            /\ UNCHANGED <<output_ch, received, held, fiberB>>
    /\ UNCHANGED <<close_steps, logged>>
    /\ UNCHANGED <<config, created, facade_consumer, ch_closed, fiberA,
                   consumer_p, handle, topics, subscription, requested,
                   rd_msg_queue, events, msg_p, finalized, stored,
                   lateNative, last>>

\* A receiver suspended in get() on the empty channel is woken by the
\* channel's close and returns the closed signal.
RecvWake(r) ==
    /\ rpc[r] = "waiting"
    /\ ch_closed
    /\ rpc' = [rpc EXCEPT ![r] = "closed"]
    /\ UNCHANGED <<close_steps, logged>>
    /\ UNCHANGED <<config, created, facade_consumer, output_ch, ch_closed,
                   fiberA, fiberB, consumer_p, handle, topics, subscription,
                   requested, rd_msg_queue, events, msg_p, held, finalized,
                   received, stored, lateNative, last>>

(***************************************************************************)
(* Consumer:subscribe and lua_consumer_subscribe.                          *)
(***************************************************************************)
\* Arguments of subscribe: tables of topic names, in lua_next order.
SubscribeArgs == UNION {[1..n -> TopicNames] : n \in 0..2}

\* A subscribe that starts a new list on every call.
lua_consumer_subscribe_replace(t, names) == [alloc |-> TRUE, list |-> names]

\* consumer->topics after lua_consumer_subscribe walked the table: the list
\* is allocated when it was NULL and every name is appended to it.
lua_consumer_subscribe(t, names) == [alloc |-> TRUE, list |-> t.list \o names]

Subscribe(names) ==
    /\ created.res = "consumer"
    /\ Len(topics.list) + Len(names) <= MaxTopics
    /\ IF facade_consumer = "nil"
       THEN \* indexing self._consumer raises
            /\ last' = [op |-> "subscribe", res |-> "raise", arg |-> 0]
            /\ UNCHANGED <<topics, subscription, requested>>
       ELSE /\ topics' = lua_consumer_subscribe(topics, names)
            /\ subscription' = topics'.list
            /\ requested' = requested \cup Range(names)
            /\ \E err \in BOOLEAN :
                 last' = [op |-> "subscribe",
                          res |-> IF err THEN "err" ELSE "ok", arg |-> 0]
    /\ UNCHANGED <<close_steps, logged>>
    /\ UNCHANGED <<config, created, facade_consumer, output_ch, ch_closed,
                   fiberA, fiberB, consumer_p, handle, rd_msg_queue, events,
                   msg_p, held, finalized, rpc, received, stored,
                   lateNative>>

(***************************************************************************)
(* Consumer:store_offset and lua_consumer_store_offset.                    *)
(***************************************************************************)
\* A store_offset that passes the next offset instead of the record's.
OffsetStoreArgsNext(k) ==
    [tp |-> <<RecordOf(k).topic, RecordOf(k).partition>>,
     offset |-> RecordOf(k).offset + 1]

\* The arguments lua_consumer_store_offset gives rd_kafka_offset_store for
\* message k: the topic/partition and the offset.
OffsetStoreArgs(k) ==
    [tp |-> <<RecordOf(k).topic, RecordOf(k).partition>>,
     offset |-> RecordOf(k).offset]

\* rd_kafka_offset_store as a recording stub.
rd_kafka_offset_store(st, a) == [st EXCEPT ![a.tp] = a.offset]

\* A store_offset that uses the message without checking its pointer.
lua_check_consumer_msg_unchecked(p) == TRUE

\* lua_check_consumer_msg on a message userdata whose *msg_p is p: whether
\* it returns the message (it raises when the pointer is NULL).
lua_check_consumer_msg(p) == p = "live"

StoreOffset(k) ==
    /\ created.res = "consumer"
    /\ k \in held
    /\ IF facade_consumer = "nil"
       THEN \* indexing self._consumer raises
            /\ last' = [op |-> "store_offset", res |-> "raise", arg |-> k]
            /\ UNCHANGED stored
       ELSE IF ~lua_check_consumer_msg(msg_p[k])
       THEN \* lua_check_consumer_msg raises
            /\ last' = [op |-> "store_offset", res |-> "raise_handle",
                      arg |-> k]
            /\ UNCHANGED stored
       ELSE \E err \in BOOLEAN :
              IF err
              THEN /\ last' = [op |-> "store_offset", res |-> "err",
                               arg |-> k]
                   /\ UNCHANGED stored
              ELSE /\ last' = [op |-> "store_offset", res |-> "ok",
                               arg |-> k]
                   /\ stored' = rd_kafka_offset_store(stored,
                                                      OffsetStoreArgs(k))
    /\ UNCHANGED <<close_steps, logged>>
    /\ UNCHANGED <<config, created, facade_consumer, output_ch, ch_closed,
                   fiberA, fiberB, consumer_p, handle, topics, subscription,
                   requested, rd_msg_queue, events, msg_p, held, finalized,
                   rpc, received, lateNative>>

(***************************************************************************)
(* Message handles: lua_consumer_msg_gc.                                   *)
(***************************************************************************)
\* A finalizer that does not clear the pointer.
MsgPKept(p) == p

\* The value lua_consumer_msg_gc leaves in *msg_p.
MsgPAfterGc(p) == "null"

\* A finalizer that clears the pointer and leaves the event alone.
lua_consumer_msg_gc_leak(ev, mp, k) ==
    [events |-> ev, msg_p |-> [mp EXCEPT ![k] = "null"]]

\* lua_consumer_msg_gc on message k: the events and the pointers afterwards.
lua_consumer_msg_gc(ev, mp, k) ==
    [events |-> IF mp[k] = "live"
                THEN [ev EXCEPT ![k].destroyed = @ + 1]
                ELSE ev,
     msg_p |-> [mp EXCEPT ![k] = MsgPAfterGc(mp[k])]]

\* The application releases a message it holds (msg:__gc()).
Release(k) ==
    /\ k \in held
    /\ LET g == lua_consumer_msg_gc(events, msg_p, k) IN
       /\ events' = g.events
       /\ msg_p' = g.msg_p
       /\ last' = [op |-> "release",
                   res |-> IF msg_p[k] = "live" THEN "destroyed" ELSE "noop",
                   arg |-> k]
    /\ UNCHANGED <<close_steps, logged>>
    /\ UNCHANGED <<config, created, facade_consumer, output_ch, ch_closed,
                   fiberA, fiberB, consumer_p, handle, topics, subscription,
                   requested, rd_msg_queue, held, finalized, rpc, received,
                   stored, lateNative>>

\* The application drops its reference to a message.
Drop(k) ==
    /\ k \in held
    /\ held' = held \ {k}
    /\ UNCHANGED <<close_steps, logged>>
    /\ UNCHANGED <<config, created, facade_consumer, output_ch, ch_closed,
                   fiberA, fiberB, consumer_p, handle, topics, subscription,
                   requested, rd_msg_queue, events, msg_p, finalized, rpc,
                   received, stored, lateNative, last>>

\* Message userdata nothing refers to any more.
Garbage == {k \in IDs : /\ msg_p[k] # "none"
                        /\ k \notin held
                        /\ k \notin Range(output_ch)
                        /\ fiberB.msg # k}

\* The collector runs the finalizer of a message, once.
Finalize(k) ==
    /\ k \in Garbage \ finalized
    /\ LET g == lua_consumer_msg_gc(events, msg_p, k) IN
       /\ events' = g.events
       /\ msg_p' = g.msg_p
    /\ finalized' = finalized \cup {k}
    /\ UNCHANGED <<close_steps, logged>>
    /\ UNCHANGED <<config, created, facade_consumer, output_ch, ch_closed,
                   fiberA, fiberB, consumer_p, handle, topics, subscription,
                   requested, rd_msg_queue, held, rpc, received, stored,
                   lateNative, last>>

(***************************************************************************)
(* Specifications.                                                         *)
(***************************************************************************)
Next ==
    \/ Close
    \/ ConsumerGc
    \/ WorkerDone
    \/ LoopA_Resume
    \/ TimePasses
    \/ LoopB_SleepWake
    \/ LoopB_YieldWake
    \/ LoopB_PutDone
    \/ LoopB_PutAbort
    \/ Deliver
    \/ \E r \in Receivers : Receive(r)
    \/ \E r \in Receivers : RecvWake(r)
    \/ \E names \in SubscribeArgs : Subscribe(names)
    \/ \E k \in IDs : StoreOffset(k)
    \/ \E k \in IDs : Release(k)
    \/ \E k \in IDs : Drop(k)
    \/ \E k \in IDs : Finalize(k)

\* A running consumer, from the state Consumer.create returns in, with
\* every operation.
Spec == Init /\ [][Next]_vars

\* The operations fall into groups that share no variable they write with
\* the other groups' operations, and each group is checked with the
\* operations that decide its properties.
\*
\* The lifecycle: close, the consumer's finalizer, subscribe, and the two
\* loops on a record queue that stays empty.
NextLifecycle ==
    \/ Close
    \/ ConsumerGc
    \/ WorkerDone
    \/ LoopA_Resume
    \/ TimePasses
    \/ LoopB_SleepWake
    \/ \E names \in SubscribeArgs : Subscribe(names)

SpecLifecycle == Init /\ [][NextLifecycle]_vars

\* The record stream: both loops, the record queue, the output channel, the
\* receivers and close.
NextStream ==
    \/ Close
    \/ WorkerDone
    \/ LoopA_Resume
    \/ TimePasses
    \/ LoopB_SleepWake
    \/ LoopB_YieldWake
    \/ LoopB_PutDone
    \/ LoopB_PutAbort
    \/ Deliver
    \/ \E r \in Receivers : Receive(r)
    \/ \E r \in Receivers : RecvWake(r)

SpecStream == Init /\ [][NextStream]_vars

\* The scheduler runs every fiber that is ready: a woken receiver returns
\* from get().
FairStream == SpecStream /\ \A r \in Receivers : WF_vars(RecvWake(r))

\* The scheduler runs every fiber that is ready, the worker thread finishes
\* every drive (rd_kafka_poll has a timeout), and time passes.
FairLoops ==
    /\ SpecStream
    /\ WF_vars(WorkerDone)
    /\ WF_vars(LoopA_Resume)
    /\ WF_vars(TimePasses)
    /\ WF_vars(LoopB_SleepWake)
    /\ WF_vars(LoopB_YieldWake)
    /\ WF_vars(LoopB_PutDone)
    /\ WF_vars(LoopB_PutAbort)

\* Fair loops with application fibers that keep calling get().
FairDelivery ==
    /\ FairLoops
    /\ \A r \in Receivers : WF_vars(Receive(r))

\* The message handles: records reach one application fiber through Loop B
\* and the channel, and the application stores offsets and releases handles.
TheReceiver == CHOOSE r \in Receivers : TRUE

NextMessages ==
    \/ Close
    \/ TimePasses
    \/ LoopB_SleepWake
    \/ LoopB_YieldWake
    \/ LoopB_PutDone
    \/ LoopB_PutAbort
    \/ Deliver
    \/ Receive(TheReceiver)
    \/ RecvWake(TheReceiver)
    \/ \E k \in IDs : StoreOffset(k)
    \/ \E k \in IDs : Release(k)
    \/ \E k \in IDs : Drop(k)
    \/ \E k \in IDs : Finalize(k)

SpecMessages == Init /\ [][NextMessages]_vars

\* The two halves of the message handles' life, each with the operations
\* that decide its properties: storing offsets of messages that may have
\* been released, and the release of handles by the application and by the
\* collector.
NextOffsets ==
    \/ Close
    \/ TimePasses
    \/ LoopB_SleepWake
    \/ LoopB_YieldWake
    \/ LoopB_PutDone
    \/ LoopB_PutAbort
    \/ Deliver
    \/ Receive(TheReceiver)
    \/ RecvWake(TheReceiver)
    \/ \E k \in IDs : StoreOffset(k)
    \/ \E k \in IDs : Release(k)

SpecOffsets == Init /\ [][NextOffsets]_vars

NextHandles ==
    \/ Close
    \/ TimePasses
    \/ LoopB_SleepWake
    \/ LoopB_YieldWake
    \/ LoopB_PutDone
    \/ LoopB_PutAbort
    \/ Deliver
    \/ Receive(TheReceiver)
    \/ RecvWake(TheReceiver)
    \/ \E k \in IDs : Release(k)
    \/ \E k \in IDs : Drop(k)
    \/ \E k \in IDs : Finalize(k)

SpecHandles == Init /\ [][NextHandles]_vars

\* Consumer.create alone, on every config.
NextCreate == Create

SpecCreate == InitCreate /\ [][NextCreate]_vars

(***************************************************************************)
(* Properties.                                                             *)
(***************************************************************************)
\* A step that is a call of close() on a facade already closed.
SecondCloseStep ==
    /\ facade_consumer = "nil"
    /\ last' # last
    /\ last'.op = "close"

\* C1: close() is idempotent: a second close() on a consumer that was
\* closed once returns success with no error, makes no native call and
\* releases no native resource again.
C1_SecondCloseSucceeds ==
    [][SecondCloseStep => (last'.res = "ok" /\ handle' = handle)]_vars

\* C2: the native consumer handle is destroyed exactly once: over close()
\* calls followed by the finalizer, the record queue, the event queue, the
\* subscription list and the handle memory are each released at most once,
\* and the teardown never runs on a handle already freed.
C2_DestroyedOnce ==
    /\ handle.msgq <= 1
    /\ handle.evq <= 1
    /\ handle.topics <= 1
    /\ handle.frees <= 1
    /\ ~handle.uaf

\* C3: once close() has requested cancellation neither loop starts a new
\* native call (Loop A's drive, Loop B's dequeue), so no native call is
\* issued on a handle close() has begun to release; a drive already in
\* flight on the worker thread may still complete.
C3_NoNativeCallAfterCancel ==
    /\ ~lateNative
    /\ fiberA.pc \in {"ready_ok", "ready_err"} /\ fiberA.cancelled
         => facade_consumer = "nil"
    /\ handle.msgq > 0 =>
         /\ fiberA.pc \in {"drive", "ready_ok", "ready_err", "dead"}
         /\ fiberA.cancelled /\ fiberB.cancelled

\* Both loops ended after close() although records were waiting on the
\* record queue and a drive was in flight when close() was called.
C3_Witness ==
    /\ fiberA.pc = "dead"
    /\ fiberB.pc = "dead"
    /\ fiberA.cancelled /\ fiberB.cancelled
    /\ rd_msg_queue # << >>
    /\ ~lateNative

\* The ids of the record queue's events, in delivery order.
AllIds == [i \in 1..MaxEvents |-> i]

\* The records the record queue has delivered to Loop B as "records fetched"
\* events, in delivery order.
FetchedSeq ==
    LET Dequeued(k) == /\ events[k].kind = "FETCH"
                       /\ k \notin Range(rd_msg_queue)
    IN  SelectSeq(AllIds, Dequeued)

\* The message Loop B holds while it is suspended in put.
InHand == IF fiberB.pc = "put" THEN <<fiberB.msg>> ELSE << >>

\* C4: while the consumer is not closed, the messages receivers took from
\* the output channel, followed by those it holds and the one Loop B is
\* putting, are exactly the records the record queue delivered as "records
\* fetched" events, in delivery order: none lost, duplicated or reordered.
C4_ForwardedInOrder ==
    facade_consumer # "nil" =>
        received \o output_ch \o InHand = FetchedSeq

\* Two records were received, in delivery order, on an open consumer.
C4_Witness ==
    /\ facade_consumer # "nil"
    /\ Len(received) >= 2
    /\ received = FetchedSeq

\* C5: the output channel never holds more than its capacity; Loop B,
\* sending to a full channel, is suspended with the message in hand, and
\* its send completes only in a step in which a receiver takes an item;
\* a send that cancel or the channel's close ends adds nothing.
C5_ChannelBounded ==
    [][/\ Len(output_ch) <= Capacity
       /\ Len(output_ch') <= Capacity
       /\ (fiberB'.pc = "put" /\ fiberB.pc # "put") =>
             /\ Len(output_ch) = Capacity
             /\ output_ch' = output_ch
             /\ fiberB'.msg \in IDs
             /\ fiberB'.msg \notin Range(output_ch')
       /\ (fiberB.pc = "put" /\ fiberB'.pc # "put") =>
             \/ /\ Len(received') = Len(received) + 1
                /\ output_ch' = Append(Tail(output_ch), fiberB.msg)
             \/ /\ fiberB.cancelled \/ ch_closed
                /\ output_ch' = output_ch
                /\ received' = received
      ]_vars

\* A receiver took an item from the full channel and so completed the send
\* Loop B was suspended in.
C5_Witness ==
    /\ fiberB.pc = "putdone"
    /\ Len(output_ch) = Capacity
    /\ Len(received) >= 1

\* C6: after close(), every application fiber that was suspended in a
\* receive on the empty output channel eventually returns with the closed
\* signal.
C6_BlockedReceiversReturn ==
    \A r \in Receivers :
        (facade_consumer = "nil" /\ rpc[r] = "waiting") ~> (rpc[r] = "closed")

\* close() was called while a receiver was suspended on the empty channel.
C6_Witness ==
    /\ facade_consumer = "nil"
    /\ ch_closed
    /\ \E r \in Receivers : rpc[r] = "waiting"

\* C7: whenever create fails, no native resource allocated during the call
\* remains allocated when it returns; a missing brokers entry and a
\* non-string option fail with ConfigError before anything native is
\* allocated.
C7_NoLeakOnFailure ==
    created.res \in {"ConfigError", "NativeInitError", "NoBrokersError"} =>
        /\ created.live = {}
        /\ created.res = "ConfigError" => created.step = "pre"

\* Whether sequence s starts with sequence t.
StartsWith(s, t) == Len(t) <= Len(s) /\ SubSeq(s, 1, Len(t)) = t

\* C8: subscribe accumulates: the list a subscribe call applies to the
\* native client contains every topic of that call and of the calls before
\* it; the list is allocated once and only ever appended to.
C8_SubscribeAccumulates ==
    [][/\ StartsWith(topics'.list, topics.list)
       /\ topics.alloc => topics'.alloc
       /\ requested' \subseteq Range(subscription')
       /\ subscription' # subscription => subscription' = topics'.list
      ]_vars

\* subscribe({"t1"}) and then subscribe({"t2"}) on an open consumer.
C8_Witness ==
    /\ facade_consumer # "nil"
    /\ last.op = "subscribe"
    /\ subscription = <<"t1", "t2">>
    /\ requested = {"t1", "t2"}

\* The topic/partition of the record of message k.
TpOf(k) == <<RecordOf(k).topic, RecordOf(k).partition>>

\* C9: store_offset(msg) on an open consumer with a live message sets the
\* native client's stored offset of the record's topic/partition to the
\* record's offset and changes no other stored offset; when the native
\* call reports an error the call returns an error value and stores
\* nothing.
C9_StoreOffset ==
    [][/\ (last'.op = "store_offset" /\ last'.res = "ok") =>
             stored'[TpOf(last'.arg)] = RecordOf(last'.arg).offset
       /\ \A tp \in TPs : stored'[tp] # stored[tp] =>
             /\ last'.op = "store_offset" /\ last'.res = "ok"
             /\ tp = TpOf(last'.arg)
             /\ facade_consumer # "nil" /\ msg_p[last'.arg] = "live"
       /\ (last'.op = "store_offset" /\ last'.res # "ok" /\ last' # last) =>
             stored' = stored
      ]_vars

\* An offset was stored for a record of one topic/partition while the
\* other topic/partition keeps the offset stored for it before.
C9_Witness ==
    /\ last.op = "store_offset" /\ last.res = "ok"
    /\ stored[TpOf(last.arg)] = RecordOf(last.arg).offset
    /\ \E tp \in TPs : /\ tp # TpOf(last.arg)
                       /\ stored[tp] # NoOffset
                       /\ stored[tp] # RecordOf(last.arg).offset

\* C10: releasing a message handle destroys the event it owns exactly once:
\* the first release (explicit or by the finalizer) destroys the event and
\* every later one neither destroys it again nor fails.
C10_ReleaseOnce ==
    \A k \in IDs :
        /\ events[k].destroyed <= 1
        /\ events[k].kind = "FETCH" =>
             (events[k].destroyed = 1 <=> msg_p[k] = "null")
        /\ (last.op = "release" /\ last.arg = k) =>
             (msg_p[k] = "null" /\ last.res \in {"destroyed", "noop"})

\* A message was released, released again, and then finalized.
C10_Witness ==
    \E k \in IDs :
        /\ last = [op |-> "release", res |-> "noop", arg |-> k]
        /\ k \in finalized
        /\ events[k].destroyed = 1

\* C11: Closed is terminal: once close() was called the consumer stays
\* closed, and every later subscribe, store_offset or close returns to its
\* caller (as a no-op or with an error value, never a raised error) and
\* makes no native call: the handle, the stored offsets and the applied
\* subscription stay as they are.
C11_ClosedIsTerminal ==
    [][facade_consumer = "nil" /\ created.res = "consumer" =>
         /\ facade_consumer' = "nil"
         /\ (last' # last /\ last'.op \in {"subscribe", "store_offset",
                                            "close"}) =>
               /\ last'.res \in {"ok", "err", "noop"}
               /\ handle' = handle
               /\ stored' = stored
               /\ subscription' = subscription
      ]_vars

\* The teardown steps in the order the first close() is to take them; the
\* event queue and the subscription list share a place.
CloseRank(step) ==
    CASE step = "cancel_poll_msg_fiber" -> 1
      [] step = "cancel_poll_fiber" -> 2
      [] step = "close_output_ch" -> 3
      [] step = "destroy_rd_msg_queue" -> 4
      [] step = "rd_kafka_consumer_close" -> 5
      [] step = "destroy_rd_event_queue" -> 6
      [] step = "destroy_topics" -> 6
      [] step = "free_consumer" -> 7

\* C12: the first close() tears down in order: cancel Loop B, cancel Loop A,
\* close the output channel, destroy the record queue, leave the group and
\* disconnect, release the event queue and the subscription list, free the
\* handle. No step is taken before an earlier one or twice, the first five
\* are always taken, and a close() that frees the handle has released the
\* event queue and the subscription list (if one was allocated) before.
C12_TeardownOrder ==
    close_steps # << >> =>
        /\ \A i, j \in 1..Len(close_steps) :
               i < j => /\ CloseRank(close_steps[i]) <= CloseRank(close_steps[j])
                        /\ close_steps[i] # close_steps[j]
        /\ Len(close_steps) >= 5
        /\ \A i \in 1..5 : CloseRank(close_steps[i]) = i
        /\ "free_consumer" \in Range(close_steps) =>
               /\ "destroy_rd_event_queue" \in Range(close_steps)
               /\ topics.alloc => "destroy_topics" \in Range(close_steps)

\* A consumer that had subscribed was closed with no error: all eight
\* calls were made.
C12_Witness ==
    /\ Len(close_steps) = 8
    /\ close_steps[8] = "free_consumer"
    /\ topics.alloc
    /\ handle.mem = "freed"

\* C13: a close() whose native leave-group/disconnect step fails returns
\* that error and still finishes the teardown in the same call: the event
\* queue and the subscription list (if allocated) are released and the
\* handle is freed.
C13_TeardownContinues ==
    [][(facade_consumer # "nil" /\ last'.op = "close" /\ last'.res = "err"
        /\ close_steps' # close_steps) =>
         /\ handle'.closes = handle.closes + 1
         /\ handle'.evq = handle.evq + 1
         /\ topics.alloc => handle'.topics = handle.topics + 1
         /\ handle'.frees = handle.frees + 1
         /\ handle'.mem = "freed"
      ]_vars

\* C14: after close() both loops eventually terminate when the scheduler
\* is fair: Loop B from where it is suspended (send, yield or sleep), Loop A
\* once the drive that was in flight has returned.
C14_LoopsTerminate ==
    (fiberA.cancelled /\ fiberB.cancelled)
        ~> (fiberA.pc = "dead" /\ fiberB.pc = "dead")

\* Both loops have ended after a close() that found Loop B suspended in a
\* send on the full channel: the message it held never reached the channel.
C14_Witness ==
    /\ fiberA.cancelled /\ fiberB.cancelled
    /\ fiberA.pc = "dead" /\ fiberB.pc = "dead"
    /\ Len(output_ch) = Capacity
    /\ \E k \in IDs : /\ msg_p[k] = "live"
                      /\ k \notin Range(received)
                      /\ k \notin Range(output_ch)

\* A step in which Loop B takes an event of another kind than "records
\* fetched" from the record queue.
UnexpectedDequeueStep ==
    /\ Len(rd_msg_queue') < Len(rd_msg_queue)
    /\ events[Head(rd_msg_queue)].kind = "OTHER"

\* C15: an event of an unexpected kind is destroyed at once in the step
\* that dequeues it, gets no message handle and nothing is put on the
\* output channel for it; the error is logged and not propagated, and Loop B
\* goes into its throttle sleep and keeps running: it ends only once it
\* has been cancelled.
C15_UnexpectedEvent ==
    [][/\ UnexpectedDequeueStep =>
             LET k == Head(rd_msg_queue) IN
             /\ events[k].destroyed = 0
             /\ events'[k].destroyed = 1
             /\ msg_p'[k] = "none"
             /\ output_ch' = output_ch
             /\ received' = received
             /\ "UnexpectedEventError" \in logged'
             /\ last' = last
             /\ fiberB'.pc = "sleep" /\ fiberB'.timer = "running"
             /\ fiberB'.msg = 0
       /\ \A k \in IDs : events'[k].kind = "OTHER" =>
             /\ msg_p'[k] = "none"
             /\ k \notin Range(output_ch') \cup Range(received')
             /\ events'[k].destroyed <= 1
       /\ fiberB'.pc = "dead" => fiberB'.cancelled
      ]_vars

\* An unexpected event was dequeued and destroyed, and a record delivered
\* after it was received, on an open consumer.
C15_Witness ==
    /\ facade_consumer # "nil"
    /\ "UnexpectedEventError" \in logged
    /\ \E k, j \in IDs :
         /\ k < j
         /\ events[k].kind = "OTHER" /\ events[k].destroyed = 1
         /\ events[j].kind = "FETCH" /\ j \in Range(received)

\* Loop B is suspended in a send on the full channel of an open consumer.
Backpressure == fiberB.pc = "put" /\ facade_consumer # "nil"

\* C16: backpressure on Loop B does not stall Loop A: whenever Loop B is
\* suspended on the full output channel of an open consumer, Loop A is
\* alive and has a step to take, and the step it takes after a drive
\* returned, with or without error, is to invoke the drive again; its steps
\* leave Loop B where it is.
C16_LoopARunsUnderBackpressure ==
    [][Backpressure =>
         /\ fiberA.pc \in {"drive", "ready_ok", "ready_err"}
         /\ ENABLED (WorkerDone \/ LoopA_Resume)
         /\ fiberA'.pc # fiberA.pc =>
               /\ fiberA.pc = "drive" => fiberA'.pc \in {"ready_ok", "ready_err"}
               /\ fiberA.pc # "drive" => fiberA'.pc = "drive"
               /\ fiberB' = fiberB
      ]_vars

\* Loop B is suspended on the full channel while Loop A, having logged a
\* drive error, is in its next drive.
C16_Witness ==
    /\ Backpressure
    /\ Len(output_ch) = Capacity
    /\ fiberA.pc = "drive"
    /\ "PollDriveError" \in logged

\* The records the native client made available that no receiver has
\* received yet: on the record queue, in Loop B's hand or on the channel.
Undelivered ==
    {k \in IDs : events[k].kind = "FETCH" /\ k \notin Range(received)}

\* C17: with a fair scheduler and receivers that keep taking from the
\* output channel, every record that becomes available on the record queue
\* is eventually received by a receiver, unless the consumer is closed;
\* drive errors and events of unexpected kinds on the way do not stop it.
\* Stated for all records at once: whenever some record is undelivered, a
\* state follows in which every record made available so far has been
\* received (a received record stays received), or close() was called.
C17_RecordsDelivered ==
    (Undelivered # {}) ~> (Undelivered = {} \/ fiberB.cancelled)

\* A record delivered behind an unexpected event was received on an open
\* consumer after a drive error had been logged too.
C17_Witness ==
    /\ ~fiberB.cancelled
    /\ logged = {"PollDriveError", "UnexpectedEventError"}
    /\ \E k \in IDs : /\ k > 1
                      /\ events[k].kind = "FETCH"
                      /\ k \in Range(received)
                      /\ events[k - 1].kind = "OTHER"

\* A step in which Loop B, not cancelled, returns from its throttle sleep
\* and makes its next dequeue attempt.
AttemptAfterThrottle ==
    /\ fiberB.pc = "sleep"
    /\ ~fiberB.cancelled
    /\ fiberB'.cancelled = fiberB.cancelled
    /\ \/ fiberB'.pc # "sleep"
       \/ fiberB'.timer = "running" /\ fiberB.timer # "running"

\* A step in which Loop B dequeues a record and sends it, and one in which
\* a send that was suspended returns.
SendStep ==
    /\ fiberB.pc \in {"sleep", "yield"}
    /\ Len(rd_msg_queue') < Len(rd_msg_queue)
    /\ events[Head(rd_msg_queue)].kind = "FETCH"

SendReturns ==
    /\ fiberB.pc = "putdone"
    /\ fiberB'.pc # "putdone"

\* A step in which Loop B starts a throttle sleep.
ThrottleStarts ==
    /\ fiberB'.pc = "sleep"
    /\ fiberB'.timer = "running"
    /\ fiberB.pc # "sleep" \/ fiberB.timer # "running"

\* What C18 says of every step but the time of the next attempt: a send
\* is followed by a yield and no throttle, and a throttle starts only in an
\* iteration that forwarded nothing.
ThrottleOnlyWhenIdle ==
    /\ SendStep => fiberB'.pc \in {"yield", "put"}
    /\ SendReturns => fiberB'.pc = "yield"
    /\ ThrottleStarts =>
         /\ output_ch' = output_ch
         /\ received' = received
         /\ \/ rd_msg_queue = << >>
            \/ events[Head(rd_msg_queue)].kind = "OTHER"

\* C18 as stated: throttle is bounded and applied only when nothing was
\* forwarded: after a dequeue that returned no entry or an error Loop B makes
\* its next dequeue attempt one throttle interval later and no later, and
\* after a successful send it only yields.
C18_ThrottleExact ==
    [][/\ AttemptAfterThrottle => fiberB.timer = "due"
       /\ ThrottleOnlyWhenIdle
      ]_vars

\* C18, amended: throttle is applied only when nothing was forwarded: after
\* a dequeue that returned no entry or an error Loop B makes its next
\* dequeue attempt no earlier than one throttle interval later (fiber.sleep
\* resumes the fiber once the interval has passed and the scheduler gets to
\* it, which may be later), and after a successful send it only yields.
C18_ThrottleAtLeast ==
    [][/\ AttemptAfterThrottle => fiberB.timer \in {"due", "late"}
       /\ ThrottleOnlyWhenIdle
      ]_vars

\* Loop B sent a record, found the record queue empty on its next attempt
\* and slept, and the interval has passed.
C18_Witness ==
    /\ facade_consumer # "nil"
    /\ fiberB.pc = "sleep"
    /\ fiberB.timer = "due"
    /\ Len(received) >= 1
    /\ rd_msg_queue = << >>

\* A step that is a store_offset call with a message handle that has been
\* released (its pointer is null).
StoreOffsetReleasedStep ==
    /\ last' # last
    /\ last'.op = "store_offset"
    /\ msg_p[last'.arg] # "live"

\* C19: store_offset with a null or already released message handle never
\* calls the native offset store: the stored offsets stay as they are, and
\* the outcome is neither success nor the error value returned when the
\* native call fails; on an open consumer it is the invalid-handle error
\* lua_check_consumer_msg raises.
C19_InvalidHandle ==
    [][StoreOffsetReleasedStep =>
         /\ stored' = stored
         /\ last'.res \notin {"ok", "err"}
         /\ facade_consumer # "nil" => last'.res = "raise_handle"
      ]_vars

\* store_offset was called on an open consumer with a released message
\* whose record's offset had been stored before: the offset is still there.
C19_Witness ==
    /\ facade_consumer # "nil"
    /\ last.op = "store_offset" /\ last.res = "raise_handle"
    /\ msg_p[last.arg] = "null"
    /\ stored[TpOf(last.arg)] = RecordOf(last.arg).offset

\* Event k has been taken from the record queue by Loop B.
TakenFromQueue(k) == events[k].kind # "none" /\ k \notin Range(rd_msg_queue)

\* The message of event k is on its way to a receiver: in Loop B's hand or
\* on the output channel.
InTransit(k) ==
    \/ fiberB.pc = "put" /\ fiberB.msg = k
    \/ k \in Range(output_ch)

\* C20: event ownership is conserved: an event Loop B dequeued is owned by
\* one message handle if it is a "records fetched" event and by none
\* otherwise; it is not destroyed while its handle is in Loop B's hand, on
\* the output channel, or held unreleased by a receiver; it is never
\* destroyed twice; and it has been destroyed once when its handle has
\* been released or finalized, also when the handle was dropped by a send
\* that close() made fail.
C20_EventOwnership ==
    \A k \in IDs :
        /\ events[k].destroyed <= 1
        /\ msg_p[k] # "none" <=> (TakenFromQueue(k) /\ events[k].kind = "FETCH")
        /\ (TakenFromQueue(k) /\ events[k].kind = "OTHER") =>
              events[k].destroyed = 1
        /\ ~TakenFromQueue(k) => events[k].destroyed = 0
        /\ InTransit(k) => msg_p[k] = "live"
        /\ msg_p[k] = "live" => events[k].destroyed = 0
        /\ msg_p[k] = "null" => events[k].destroyed = 1
        /\ k \in finalized => (msg_p[k] = "null" /\ events[k].destroyed = 1)

\* close() found Loop B suspended in a send on the full channel; the
\* message it held was never received, and the collector finalized it and
\* so destroyed its event.
C20_Witness ==
    /\ fiberB.pc = "dead"
    /\ ch_closed
    /\ Len(output_ch) = Capacity
    /\ \E k \in IDs : /\ events[k].kind = "FETCH"
                      /\ k \notin Range(received)
                      /\ k \notin Range(output_ch)
                      /\ k \in finalized
                      /\ events[k].destroyed = 1

\* What C21 says of the steps taken once the output channel is closed: it
\* stays closed and its buffer only shrinks, from the front and into a
\* receiver's hands; a send Loop B has pending or attempts fails and adds
\* nothing; and a receiver sees the closed signal only on an empty buffer.
ClosedChannelNeverGrows ==
    /\ ch_closed =>
         /\ ch_closed'
         /\ output_ch' # output_ch =>
               /\ output_ch' = Tail(output_ch)
               /\ received' = Append(received, Head(output_ch))
         /\ (fiberB.pc = "put" /\ fiberB'.pc # "put") =>
               /\ fiberB'.pc \in {"yield", "dead"}
               /\ output_ch' = output_ch
         /\ Len(rd_msg_queue') < Len(rd_msg_queue) =>
               output_ch' = output_ch
    /\ \A r \in Receivers :
         (rpc'[r] = "closed" /\ rpc[r] # "closed") => output_ch = << >>

\* The step in which close() closes the channel leaves the items it holds.
ItemsSurviveClose == (~ch_closed /\ ch_closed') => output_ch' = output_ch

\* C21: once close() has closed the output channel its contents never
\* grow: a send Loop B attempts or has pending fails and adds nothing; and
\* the items in the channel at close time stay receivable, in FIFO order,
\* before receivers see the closed signal.
C21_ClosedChannelDrains ==
    [][ClosedChannelNeverGrows /\ ItemsSurviveClose]_vars

====
